---- MODULE Spec2Model ----
(***************************************************************************)
(* bevy_brp_websocket_relay: the WebSocket relay transport of the Bevy     *)
(* Remote Protocol (src/src/lib.rs).  One WebSocket, the BrpRelayStatus    *)
(* flag, and one process_request task per inbound text frame, each with    *)
(* its own bounded response channel towards the BRP executor.              *)
(***************************************************************************)
EXTENDS Integers, Sequences, FiniteSets, TLC

(***************************************************************************)
(* Bounds of the model.                                                    *)
(***************************************************************************)
\* inbound message events handled in one run (one slot per event)
MaxRequests == 2
\* items the executor tries to put on one response channel
MaxItems == 2
\* Err items the executor yields in one run
MaxErrItems == 1
\* send_with_str calls that fail in one run
MaxWriteFailures == 1
\* error events delivered in one run
MaxErrorEvents == 1
\* capacity of the executor intake (the BrpSender channel)
IntakeCapacity == 1
\* items of the single streaming request of SpecBurst
BurstItems == 9

(***************************************************************************)
(* Program constants.                                                      *)
(***************************************************************************)
WatchChannelSize == 8
SingleChannelSize == 1
ParseErrorCode == -32700
InvalidRequestCode == -32600
InternalErrorCode == -32603

(***************************************************************************)
(* serde_json::Value, Option<Value>.  Every Value is a record of one       *)
(* shape: t is the JSON type, n a number, s a string (a sequence of        *)
(* characters), o the members of an object.                                *)
(***************************************************************************)
NoMembers == [k \in {} |-> 0]
JNull == [t |-> "null", n |-> 0, s |-> <<>>, o |-> NoMembers]
JNum(x) == [t |-> "number", n |-> x, s |-> <<>>, o |-> NoMembers]
JStr(chars) == [t |-> "string", n |-> 0, s |-> chars, o |-> NoMembers]
JArr == [t |-> "array", n |-> 0, s |-> <<>>, o |-> NoMembers]
JObj(members) == [t |-> "object", n |-> 0, s |-> <<>>, o |-> members]

None == [some |-> FALSE, v |-> JNull]
Some(x) == [some |-> TRUE, v |-> x]

\* Value::get(key): a member of an object, None for anything else
Get(value, key) ==
    IF value.t = "object" /\ key \in DOMAIN value.o
    THEN Some(value.o[key])
    ELSE None

\* Option<&Value>::and_then(|m| m.as_str())
AsStr(opt) ==
    IF opt.some /\ opt.v.t = "string" THEN Some(opt.v) ELSE None

\* how json!({"id": id}) serializes an Option<&Value>: None becomes null
IdField(opt) == IF opt.some THEN opt.v ELSE JNull

\* str::contains
Contains(chars, pat) ==
    \E i \in 1..(Len(chars) - Len(pat) + 1) :
        SubSeq(chars, i, i + Len(pat) - 1) = pat

WatchMarker == <<"+", "w", "a", "t", "c", "h">>

\* a marker test that leaves out the "+"
IsWatch_anyWatch(method) == Contains(method, <<"w", "a", "t", "c", "h">>)

\* let is_watch = method.contains("+watch")
IsWatch(method) == Contains(method, WatchMarker)

\* the two capacities the wrong way round
ChannelSize_swapped(is_watch) ==
    IF is_watch THEN SingleChannelSize ELSE WatchChannelSize

\* let channel_size = if is_watch { 8 } else { 1 }
ChannelSize(is_watch) == IF is_watch THEN WatchChannelSize ELSE SingleChannelSize

(***************************************************************************)
(* The text frames the relay server sends in this model, and what          *)
(* serde_json::from_str makes of each.                                     *)
(***************************************************************************)
M_get == <<"g", "e", "t">>
M_watch == <<"w", "a", "t", "c", "h">>
M_e_watch == <<"e", "+", "w", "a", "t", "c", "h">>
M_watcher == <<"+", "w", "a", "t", "c", "h", "e", "r">>

Texts ==
    { "not-json",
      "[1]",
      "{\"id\":3}",
      "{\"id\":null,\"method\":5}",
      "{\"method\":\"get\"}",
      "{\"id\":7,\"method\":\"watch\",\"params\":[1]}",
      "{\"id\":1,\"method\":\"e+watch\"}",
      "{\"id\":null,\"method\":\"+watcher\"}" }

\* serde_json::from_str(&text): Ok(value) or Err(e)
FromStr(text) ==
    CASE text = "not-json" ->
           [ok |-> FALSE, v |-> JNull, e |-> "expected ident at line 1 column 2"]
      [] text = "[1]" ->
           [ok |-> TRUE, v |-> JArr, e |-> ""]
      [] text = "{\"id\":3}" ->
           [ok |-> TRUE, v |-> JObj([k \in {"id"} |-> JNum(3)]), e |-> ""]
      [] text = "{\"id\":null,\"method\":5}" ->
           [ok |-> TRUE,
            v |-> JObj([k \in {"id", "method"} |->
                          IF k = "id" THEN JNull ELSE JNum(5)]),
            e |-> ""]
      [] text = "{\"method\":\"get\"}" ->
           [ok |-> TRUE, v |-> JObj([k \in {"method"} |-> JStr(M_get)]), e |-> ""]
      [] text = "{\"id\":7,\"method\":\"watch\",\"params\":[1]}" ->
           [ok |-> TRUE,
            v |-> JObj([k \in {"id", "method", "params"} |->
                          CASE k = "id" -> JNum(7)
                            [] k = "method" -> JStr(M_watch)
                            [] OTHER -> JArr]),
            e |-> ""]
      [] text = "{\"id\":1,\"method\":\"e+watch\"}" ->
           [ok |-> TRUE,
            v |-> JObj([k \in {"id", "method"} |->
                          IF k = "id" THEN JNum(1) ELSE JStr(M_e_watch)]),
            e |-> ""]
      [] text = "{\"id\":null,\"method\":\"+watcher\"}" ->
           [ok |-> TRUE,
            v |-> JObj([k \in {"id", "method"} |->
                          IF k = "id" THEN JNull ELSE JStr(M_watcher)]),
            e |-> ""]

(***************************************************************************)
(* Frame Builder.  A frame is the JSON object handed to send_with_str, a   *)
(* function from its member names to their values.                         *)
(***************************************************************************)
\* Result<Value, BrpError> items of a response channel; n is the executor's
\* serial number of the item on its channel
OkItem(k) == [ok |-> TRUE, n |-> k]
ErrItem(k) == [ok |-> FALSE, n |-> k]

\* a builder that leaves an empty "error" member in a success frame
make_response_bothMembers(id, result) ==
    IF result.ok
    THEN [k \in {"jsonrpc", "id", "result", "error"} |->
            CASE k = "jsonrpc" -> [ver |-> "2.0"]
              [] k = "id" -> IdField(id)
              [] k = "result" -> [value |-> result.n]
              [] OTHER -> [brp_error |-> 0]]
    ELSE [k \in {"jsonrpc", "id", "error"} |->
            CASE k = "jsonrpc" -> [ver |-> "2.0"]
              [] k = "id" -> IdField(id)
              [] OTHER -> [brp_error |-> result.n]]

\* a builder that leaves the id out of the frames it makes
make_response_nullId(id, result) ==
    IF result.ok
    THEN [k \in {"jsonrpc", "id", "result"} |->
            CASE k = "jsonrpc" -> [ver |-> "2.0"]
              [] k = "id" -> JNull
              [] OTHER -> [value |-> result.n]]
    ELSE [k \in {"jsonrpc", "id", "error"} |->
            CASE k = "jsonrpc" -> [ver |-> "2.0"]
              [] k = "id" -> JNull
              [] OTHER -> [brp_error |-> result.n]]

\* make_response(id, result)
make_response(id, result) ==
    IF result.ok
    THEN [k \in {"jsonrpc", "id", "result"} |->
            CASE k = "jsonrpc" -> [ver |-> "2.0"]
              [] k = "id" -> IdField(id)
              [] OTHER -> [value |-> result.n]]
    ELSE [k \in {"jsonrpc", "id", "error"} |->
            CASE k = "jsonrpc" -> [ver |-> "2.0"]
              [] k = "id" -> IdField(id)
              [] OTHER -> [brp_error |-> result.n]]

\* the frame send_error_response(ws, id, code, message) builds; a message is
\* the sequence of the pieces format! joins
error_response(id, code, message) ==
    [k \in {"jsonrpc", "id", "error"} |->
        CASE k = "jsonrpc" -> [ver |-> "2.0"]
          [] k = "id" -> IdField(id)
          [] OTHER -> [code |-> code, message |-> message]]

(***************************************************************************)
(* State.                                                                  *)
(*   ws           the WebSocket as the handled events show it: "none"      *)
(*                before start_websocket_relay ran, then "connecting",     *)
(*                "open" after the open event, "closed" after close        *)
(*   connected    BrpRelayStatus.connected                                 *)
(*   connects     WebSocket::new calls made                                *)
(*   errorsLogged error events handled (each logs one line)                *)
(*   inbox        the payloads of the message events handled, in order     *)
(*   tasks        tasks[r]: the process_request future spawned for         *)
(*                inbox[r] (pc "none": no task was spawned); sends counts  *)
(*                its sender.send calls, sent is that call's last poll     *)
(*   chans        the response channels, in creation order                 *)
(*   intake       the BrpSender channel's queue of BrpMessages             *)
(*   intakeClosed whether the BrpSender channel is closed                  *)
(*   intakeLog    the messages the intake has accepted so far, each with   *)
(*                the task that sent it                                    *)
(*   held         the result_sender handles the executor holds             *)
(*   wire         the send_with_str calls made, in order, each with the    *)
(*                task that made it and whether the call returned Ok       *)
(***************************************************************************)
VARIABLES ws, connected, connects, errorsLogged, inbox, tasks, chans,
          intake, intakeClosed, intakeLog, held, wire

vars == <<ws, connected, connects, errorsLogged, inbox, tasks, chans,
          intake, intakeClosed, intakeLog, held, wire>>

\* a message event's data: a JsString or something else (an ArrayBuffer)
TextPayload(t) == [text |-> TRUE, data |-> t]
BinaryPayload == [text |-> FALSE, data |-> "arraybuffer"]
Payloads == {TextPayload(t) : t \in Texts} \cup {BinaryPayload}

NoMessage == [method |-> <<>>, params |-> None, sender |-> 0]

\* the slot of a message event that spawned nothing
NoTask ==
    [pc |-> "none", text |-> "", id |-> None, is_watch |-> FALSE,
     chan |-> 0, sends |-> 0, sent |-> "", msg |-> NoMessage]

\* the future spawn_local queues: process_request(text, sender, ws)
SpawnedTask(text) == [NoTask EXCEPT !.pc = "spawned", !.text = text]

\* async_channel::bounded(channel_size): both handles alive, nothing queued.
\* hist and rejected record what the executor did with the producer handle:
\* the items the channel accepted, and the sends that failed
NewChannel(channel_size) ==
    [cap |-> channel_size, q |-> <<>>, senders |-> 1, receivers |-> 1,
     hist |-> <<>>, rejected |-> 0]

\* BrpRelayStatus::connected()
BrpRelayStatus_connected == connected

\* BrpRelayStatus::default() and the state before the Startup schedule runs
Init ==
    /\ ws = "none"
    /\ connected = FALSE
    /\ connects = 0
    /\ errorsLogged = 0
    /\ inbox = <<>>
    /\ tasks = <<>>
    /\ chans = <<>>
    /\ intake = <<>>
    /\ intakeClosed = FALSE
    /\ intakeLog = <<>>
    /\ held = {}
    /\ wire = <<>>

(***************************************************************************)
(* Connection Manager: start_websocket_relay and its four closures.        *)
(***************************************************************************)
\* the Startup system: WebSocket::new(&url) and the handlers' registration
start_websocket_relay ==
    /\ ws = "none"
    /\ ws' = "connecting"
    /\ connects' = connects + 1
    /\ UNCHANGED <<connected, errorsLogged, inbox, tasks, chans, intake,
                   intakeClosed, intakeLog, held, wire>>

\* onopen: status_connected.store(true)
onopen ==
    /\ ws = "connecting"
    /\ ws' = "open"
    /\ connected' = TRUE
    /\ UNCHANGED <<connects, errorsLogged, inbox, tasks, chans, intake,
                   intakeClosed, intakeLog, held, wire>>

\* a close handler that connects again
onclose_reconnects ==
    /\ ws \in {"connecting", "open"}
    /\ ws' = "connecting"
    /\ connects' = connects + 1
    /\ connected' = FALSE
    /\ UNCHANGED <<errorsLogged, inbox, tasks, chans, intake,
                   intakeClosed, intakeLog, held, wire>>

\* a close handler that also ends the tasks awaiting a response
onclose_cancelsTasks ==
    /\ ws \in {"connecting", "open"}
    /\ ws' = "closed"
    /\ connected' = FALSE
    /\ tasks' = [r \in DOMAIN tasks |->
                    IF tasks[r].pc = "recv"
                    THEN [tasks[r] EXCEPT !.pc = "done"]
                    ELSE tasks[r]]
    /\ chans' = [c \in DOMAIN chans |->
                    IF \E r \in DOMAIN tasks :
                          tasks[r].pc = "recv" /\ tasks[r].chan = c
                    THEN [chans[c] EXCEPT !.receivers = 0]
                    ELSE chans[c]]
    /\ UNCHANGED <<connects, errorsLogged, inbox, intake,
                   intakeClosed, intakeLog, held, wire>>

\* onclose: status_disconnected.store(false)
onclose ==
    /\ ws \in {"connecting", "open"}
    /\ ws' = "closed"
    /\ connected' = FALSE
    /\ UNCHANGED <<connects, errorsLogged, inbox, tasks, chans, intake,
                   intakeClosed, intakeLog, held, wire>>

\* an error handler that also marks the relay disconnected
onerror_disconnects ==
    /\ ws \in {"connecting", "open"}
    /\ errorsLogged < MaxErrorEvents
    /\ errorsLogged' = errorsLogged + 1
    /\ connected' = FALSE
    /\ UNCHANGED <<ws, connects, inbox, tasks, chans, intake,
                   intakeClosed, intakeLog, held, wire>>

\* an error handler that treats the error as the end of the connection
onerror_actsAsClose ==
    /\ ws \in {"connecting", "open"}
    /\ errorsLogged < MaxErrorEvents
    /\ errorsLogged' = errorsLogged + 1
    /\ ws' = "closed"
    /\ connected' = FALSE
    /\ UNCHANGED <<connects, inbox, tasks, chans, intake,
                   intakeClosed, intakeLog, held, wire>>

\* onerror: logs, nothing else
onerror ==
    /\ ws \in {"connecting", "open"}
    /\ errorsLogged < MaxErrorEvents
    /\ errorsLogged' = errorsLogged + 1
    /\ UNCHANGED <<ws, connected, connects, inbox, tasks, chans, intake,
                   intakeClosed, intakeLog, held, wire>>

\* a handler that spawns nothing for a text it is already working on
onmessage_dedups(payload, maxRequests) ==
    /\ ws = "open"
    /\ Len(inbox) < maxRequests
    /\ inbox' = Append(inbox, payload)
    /\ tasks' = Append(tasks,
                       IF payload.text
                          /\ ~\E s \in DOMAIN tasks :
                                /\ tasks[s].text = payload.data
                                /\ tasks[s].pc \in {"spawned", "send", "recv"}
                       THEN [pc |-> "spawned", text |-> payload.data,
                             id |-> None, is_watch |-> FALSE, chan |-> 0,
                             sends |-> 0, sent |-> "",
                             msg |-> [method |-> <<>>, params |-> None,
                                      sender |-> 0]]
                       ELSE [pc |-> "none", text |-> "", id |-> None,
                             is_watch |-> FALSE, chan |-> 0, sends |-> 0,
                             sent |-> "",
                             msg |-> [method |-> <<>>, params |-> None,
                                      sender |-> 0]])
    /\ UNCHANGED <<ws, connected, connects, errorsLogged, chans, intake,
                   intakeClosed, intakeLog, held, wire>>

\* a handler that runs process_request to its end before the next event is
\* taken
onmessage_inline(payload, maxRequests) ==
    /\ ws = "open"
    /\ Len(inbox) < maxRequests
    /\ \A r \in DOMAIN tasks : tasks[r].pc \in {"none", "done"}
    /\ inbox' = Append(inbox, payload)
    /\ tasks' = Append(tasks,
                       IF payload.text
                       THEN [pc |-> "spawned", text |-> payload.data,
                             id |-> None, is_watch |-> FALSE, chan |-> 0,
                             sends |-> 0, sent |-> "",
                             msg |-> [method |-> <<>>, params |-> None,
                                      sender |-> 0]]
                       ELSE [pc |-> "none", text |-> "", id |-> None,
                             is_watch |-> FALSE, chan |-> 0, sends |-> 0,
                             sent |-> "",
                             msg |-> [method |-> <<>>, params |-> None,
                                      sender |-> 0]])
    /\ UNCHANGED <<ws, connected, connects, errorsLogged, chans, intake,
                   intakeClosed, intakeLog, held, wire>>

\* a handler that reads a payload that is no string as the empty text
onmessage_binaryAsText(payload, maxRequests) ==
    /\ ws = "open"
    /\ Len(inbox) < maxRequests
    /\ inbox' = Append(inbox, payload)
    /\ tasks' = Append(tasks,
                       [pc |-> "spawned",
                        text |-> IF payload.text THEN payload.data
                                 ELSE "not-json",
                        id |-> None, is_watch |-> FALSE, chan |-> 0,
                        sends |-> 0, sent |-> "",
                        msg |-> [method |-> <<>>, params |-> None,
                                 sender |-> 0]])
    /\ UNCHANGED <<ws, connected, connects, errorsLogged, chans, intake,
                   intakeClosed, intakeLog, held, wire>>

\* onmessage: a payload that is no JsString returns at once, a text is moved
\* into a process_request future handed to spawn_local
onmessage(payload, maxRequests) ==
    /\ ws = "open"
    /\ Len(inbox) < maxRequests
    /\ inbox' = Append(inbox, payload)
    /\ tasks' = Append(tasks, IF payload.text
                              THEN SpawnedTask(payload.data)
                              ELSE NoTask)
    /\ UNCHANGED <<ws, connected, connects, errorsLogged, chans, intake,
                   intakeClosed, intakeLog, held, wire>>

(***************************************************************************)
(* Message Router and Response Relay: process_request.  A task runs from   *)
(* one suspension point to the next in one step; it can suspend in         *)
(* sender.send(message).await and in result_receiver.recv().await.         *)
(***************************************************************************)
\* send_with_str calls that returned Err so far
WriteFailures == Cardinality({i \in DOMAIN wire : ~wire[i].ok})

\* the outcome of a send_with_str call is the socket's; the model bounds the
\* failures of one run
WriteOutcome(wok) == wok \/ WriteFailures < MaxWriteFailures

\* ws.send_with_str(&frame) by task r, returning Ok (wok) or Err
send_with_str(r, frame, wok) ==
    Append(wire, [req |-> r, frame |-> frame, ok |-> wok])

\* the parse failure reported with the invalid-request code
ParseErrorFrame_wrongCode(e) ==
    error_response(None, InvalidRequestCode, <<"Parse error: ", e>>)

\* send_error_response(&ws, None, -32700, &format!("Parse error: {e}"))
ParseErrorFrame(e) ==
    error_response(None, ParseErrorCode, <<"Parse error: ", e>>)

\* the missing-method error sent without the request's id
MissingMethodFrame_noId(id) ==
    error_response(None, InvalidRequestCode, <<"Missing method field">>)

\* send_error_response(&ws, id.as_ref(), -32600, "Missing method field")
MissingMethodFrame(id) ==
    error_response(id, InvalidRequestCode, <<"Missing method field">>)

\* send_error_response(&ws, id.as_ref(), -32603, "BRP channel closed")
ChannelClosedFrame(id) ==
    error_response(id, InternalErrorCode, <<"BRP channel closed">>)

\* one poll of sender.send(message): Err when the intake is closed, Ok when
\* it has room, Pending while it is full
SendPoll ==
    IF intakeClosed THEN "closed"
    ELSE IF Len(intake) < IntakeCapacity THEN "sent"
    ELSE "pending"

\* a task that goes on to await its response channel after a failed send
AfterSend_waitsAnyway(polled) ==
    CASE polled = "pending" -> "send"
      [] OTHER -> "recv"

\* where process_request goes after a poll of sender.send(message).await:
\* is_err() writes the error frame and returns, Ok goes on to await the
\* response channel, Pending leaves the task suspended in the send
AfterSend(polled) ==
    CASE polled = "closed" -> "done"
      [] polled = "sent" -> "recv"
      [] OTHER -> "send"

\* if sender.send(message).await.is_err() { send_error_response(..); return; }
\* for task r in state t with the channels chs.  An Err hands the message
\* back, and both channel handles are dropped at the return.
SendStep(r, t, chs, wok) ==
    LET polled == SendPoll
    IN  /\ tasks' = [tasks EXCEPT ![r] =
                        [t EXCEPT !.pc = AfterSend(polled),
                                  !.sent = polled,
                                  !.msg = IF polled = "pending"
                                          THEN t.msg ELSE NoMessage]]
        /\ wire' = IF polled = "closed"
                   THEN send_with_str(r, ChannelClosedFrame(t.id), wok)
                   ELSE wire
        /\ intake' = IF polled = "sent" THEN Append(intake, t.msg) ELSE intake
        /\ intakeLog' = IF polled = "sent"
                        THEN Append(intakeLog, [req |-> r, msg |-> t.msg])
                        ELSE intakeLog
        /\ chans' = IF polled = "closed"
                    THEN [chs EXCEPT ![t.chan].senders = 0,
                                     ![t.chan].receivers = 0]
                    ELSE chs

\* a task that returns after writing one error frame, before any channel
\* exists
ReplyAndReturn(r, frame, wok) ==
    /\ wire' = send_with_str(r, frame, wok)
    /\ tasks' = [tasks EXCEPT ![r].pc = "done"]
    /\ UNCHANGED <<chans, intake, intakeLog>>

\* process_request from its first poll to its first suspension: parse,
\* validate, create the response channel, submit
TaskStart(r, wok) ==
    /\ r \in DOMAIN tasks
    /\ tasks[r].pc = "spawned"
    /\ WriteOutcome(wok)
    /\ LET t == tasks[r]
           parsed == FromStr(t.text)
       IN  IF ~parsed.ok
           THEN ReplyAndReturn(r, ParseErrorFrame(parsed.e), wok)
           ELSE LET request == parsed.v
                    id == Get(request, "id")
                    method == AsStr(Get(request, "method"))
                IN  IF ~method.some
                    THEN ReplyAndReturn(r, MissingMethodFrame(id), wok)
                    ELSE LET params == Get(request, "params")
                             is_watch == IsWatch(method.v.s)
                             c == Len(chans) + 1
                             message == [method |-> method.v.s,
                                         params |-> params,
                                         sender |-> c]
                             t1 == [t EXCEPT !.id = id,
                                             !.is_watch = is_watch,
                                             !.chan = c,
                                             !.sends = 1,
                                             !.msg = message]
                         IN  SendStep(r, t1,
                                      Append(chans,
                                             NewChannel(ChannelSize(is_watch))),
                                      wok)
    /\ UNCHANGED <<ws, connected, connects, errorsLogged, inbox,
                   intakeClosed, held>>

\* a task suspended in sender.send(message).await is polled again once the
\* intake has room or is closed
TaskSendResume(r, wok) ==
    /\ r \in DOMAIN tasks
    /\ tasks[r].pc = "send"
    /\ SendPoll # "pending"
    /\ WriteOutcome(wok)
    /\ SendStep(r, tasks[r], chans, wok)
    /\ UNCHANGED <<ws, connected, connects, errorsLogged, inbox,
                   intakeClosed, held>>

\* a receiver that hands out the newest queued item first
recv_newestFirst(ch) ==
    IF ch.q # <<>>
    THEN [ready |-> TRUE, ok |-> TRUE, item |-> ch.q[Len(ch.q)],
          rest |-> SubSeq(ch.q, 1, Len(ch.q) - 1)]
    ELSE [ready |-> ch.senders = 0, ok |-> FALSE, item |-> OkItem(0),
          rest |-> <<>>]

\* a receiver that wakes with Err although the channel is open and empty
recv_spuriousErr(ch) ==
    IF ch.q # <<>>
    THEN [ready |-> TRUE, ok |-> TRUE, item |-> Head(ch.q), rest |-> Tail(ch.q)]
    ELSE [ready |-> TRUE, ok |-> FALSE, item |-> OkItem(0), rest |-> <<>>]

\* a receiver that hands out a default item once the channel is closed
recv_itemOnClosure(ch) ==
    IF ch.q # <<>>
    THEN [ready |-> TRUE, ok |-> TRUE, item |-> Head(ch.q), rest |-> Tail(ch.q)]
    ELSE [ready |-> ch.senders = 0, ok |-> TRUE, item |-> ErrItem(0),
          rest |-> <<>>]

\* one poll of result_receiver.recv(): the oldest queued item, Err once the
\* channel is empty with its sender dropped, Pending otherwise
recv(ch) ==
    IF ch.q # <<>>
    THEN [ready |-> TRUE, ok |-> TRUE, item |-> Head(ch.q), rest |-> Tail(ch.q)]
    ELSE [ready |-> ch.senders = 0, ok |-> FALSE, item |-> OkItem(0),
          rest |-> <<>>]

\* a relay that returns after its first item whatever the request
AwaitsNext_never(is_watch, wok) == FALSE

\* a loop that goes on reading after a failed write
AwaitsNext_despiteFailure(is_watch, wok) == is_watch

\* whether the task awaits another item after writing one: the while loop
\* of a watching request goes on unless the write failed, anything else
\* returns
AwaitsNext(is_watch, wok) == is_watch /\ wok

\* a task whose receiver outlives it: the channel stays open after the
\* task returned
TaskRecv_keepsReceiver(r, wok) ==
    /\ r \in DOMAIN tasks
    /\ tasks[r].pc = "recv"
    /\ WriteOutcome(wok)
    /\ LET t == tasks[r]
           got == recv(chans[t.chan])
       IN  /\ got.ready
           /\ IF got.ok
              THEN /\ wire' = send_with_str(r, make_response(t.id, got.item), wok)
                   /\ chans' = [chans EXCEPT ![t.chan].q = got.rest]
                   /\ IF AwaitsNext(t.is_watch, wok)
                      THEN UNCHANGED tasks
                      ELSE tasks' = [tasks EXCEPT ![r].pc = "done"]
              ELSE /\ tasks' = [tasks EXCEPT ![r].pc = "done"]
                   /\ UNCHANGED <<wire, chans>>
    /\ UNCHANGED <<ws, connected, connects, errorsLogged, inbox, intake,
                   intakeClosed, intakeLog, held>>

\* a task suspended in result_receiver.recv().await resumes on an item or
\* on the channel's closure; returning drops the receiver
TaskRecv(r, wok) ==
    /\ r \in DOMAIN tasks
    /\ tasks[r].pc = "recv"
    /\ WriteOutcome(wok)
    /\ LET t == tasks[r]
           got == recv(chans[t.chan])
       IN  /\ got.ready
           /\ IF got.ok
              THEN /\ wire' = send_with_str(r, make_response(t.id, got.item), wok)
                   /\ IF AwaitsNext(t.is_watch, wok)
                      THEN /\ chans' = [chans EXCEPT ![t.chan].q = got.rest]
                           /\ UNCHANGED tasks
                      ELSE /\ chans' = [chans EXCEPT ![t.chan].q = got.rest,
                                                     ![t.chan].receivers = 0]
                           /\ tasks' = [tasks EXCEPT ![r].pc = "done"]
              ELSE /\ chans' = [chans EXCEPT ![t.chan].receivers = 0]
                   /\ tasks' = [tasks EXCEPT ![r].pc = "done"]
                   /\ UNCHANGED wire
    /\ UNCHANGED <<ws, connected, connects, errorsLogged, inbox, intake,
                   intakeClosed, intakeLog, held>>

(***************************************************************************)
(* The BRP executor, as the relay meets it: the receiving end of the       *)
(* BrpSender channel and the result_sender of every BrpMessage.            *)
(***************************************************************************)
\* the executor receives the oldest BrpMessage and keeps its result_sender
ExecTake ==
    /\ intake # <<>>
    /\ held' = held \cup {Head(intake).sender}
    /\ intake' = Tail(intake)
    /\ UNCHANGED <<ws, connected, connects, errorsLogged, inbox, tasks,
                   chans, intakeClosed, intakeLog, wire>>

\* Err items the channels have accepted so far
ErrItems ==
    Cardinality(UNION { {<<c, i>> : i \in {j \in DOMAIN chans[c].hist :
                                              ~chans[c].hist[j].ok}} :
                        c \in DOMAIN chans })

\* the executor sends its next item on result_sender c: queued while the
\* channel has room, an error once the receiver is dropped; a full channel
\* makes the executor wait
ExecProduce(c, isOk, maxItems) ==
    /\ c \in held
    /\ Len(chans[c].hist) + chans[c].rejected < maxItems
    /\ isOk \/ ErrItems < MaxErrItems
    /\ LET ch == chans[c]
           k == Len(ch.hist) + ch.rejected + 1
           item == IF isOk THEN OkItem(k) ELSE ErrItem(k)
       IN  IF ch.receivers = 0
           THEN chans' = [chans EXCEPT ![c].rejected = ch.rejected + 1]
           ELSE /\ Len(ch.q) < ch.cap
                /\ chans' = [chans EXCEPT ![c].q = Append(ch.q, item),
                                          ![c].hist = Append(ch.hist, item)]
    /\ UNCHANGED <<ws, connected, connects, errorsLogged, inbox, tasks,
                   intake, intakeClosed, intakeLog, held, wire>>

\* the executor drops result_sender c
ExecDrop(c) ==
    /\ c \in held
    /\ held' = held \ {c}
    /\ chans' = [chans EXCEPT ![c].senders = 0]
    /\ UNCHANGED <<ws, connected, connects, errorsLogged, inbox, tasks,
                   intake, intakeClosed, intakeLog, wire>>

\* the receiving end of the BrpSender channel is closed
ExecCloseIntake ==
    /\ ~intakeClosed
    /\ intakeClosed' = TRUE
    /\ UNCHANGED <<ws, connected, connects, errorsLogged, inbox, tasks,
                   chans, intake, intakeLog, held, wire>>

(***************************************************************************)
(* Specifications.                                                         *)
(***************************************************************************)
Next ==
    \/ start_websocket_relay
    \/ onopen
    \/ onclose
    \/ onerror
    \/ \E p \in Payloads : onmessage(p, MaxRequests)
    \/ \E r \in DOMAIN tasks, wok \in BOOLEAN : TaskStart(r, wok)
    \/ \E r \in DOMAIN tasks, wok \in BOOLEAN : TaskSendResume(r, wok)
    \/ \E r \in DOMAIN tasks, wok \in BOOLEAN : TaskRecv(r, wok)
    \/ ExecTake
    \/ \E c \in held, isOk \in BOOLEAN : ExecProduce(c, isOk, MaxItems)
    \/ \E c \in held : ExecDrop(c)
    \/ ExecCloseIntake

Spec == Init /\ [][Next]_vars

\* One streaming request whose executor yields success values, more of them
\* than the response channel holds.  A single request never finds the
\* intake full, so no task suspends in its send.
StreamingTexts ==
    { "{\"id\":1,\"method\":\"e+watch\"}",
      "{\"id\":null,\"method\":\"+watcher\"}" }

NextBurst ==
    \/ start_websocket_relay
    \/ onopen
    \/ onclose
    \/ onerror
    \/ \E t \in StreamingTexts : onmessage(TextPayload(t), 1)
    \/ \E r \in DOMAIN tasks, wok \in BOOLEAN : TaskStart(r, wok)
    \/ \E r \in DOMAIN tasks, wok \in BOOLEAN : TaskRecv(r, wok)
    \/ ExecTake
    \/ \E c \in held : ExecProduce(c, TRUE, BurstItems)
    \/ \E c \in held : ExecDrop(c)
    \/ ExecCloseIntake

SpecBurst == Init /\ [][NextBurst]_vars

\* One message event, whatever its payload.
NextSolo ==
    \/ start_websocket_relay
    \/ onopen
    \/ onclose
    \/ onerror
    \/ \E p \in Payloads : onmessage(p, 1)
    \/ \E r \in DOMAIN tasks, wok \in BOOLEAN : TaskStart(r, wok)
    \/ \E r \in DOMAIN tasks, wok \in BOOLEAN : TaskRecv(r, wok)
    \/ ExecTake
    \/ \E c \in held, isOk \in BOOLEAN : ExecProduce(c, isOk, MaxItems)
    \/ \E c \in held : ExecDrop(c)
    \/ ExecCloseIntake

SpecSolo == Init /\ [][NextSolo]_vars

\* spawn_local's executor polls every task that was spawned or woken
TaskFairness ==
    \A r \in 1..MaxRequests :
        /\ WF_vars(\E wok \in BOOLEAN : TaskStart(r, wok))
        /\ WF_vars(\E wok \in BOOLEAN : TaskSendResume(r, wok))
        /\ WF_vars(\E wok \in BOOLEAN : TaskRecv(r, wok))

\* an executor that serves its intake and, for every request it took, goes
\* on to yield an item or to drop the producer handle
ExecFairness(kinds, maxItems) ==
    /\ WF_vars(ExecTake)
    /\ \A c \in 1..MaxRequests :
          WF_vars(ExecDrop(c) \/ \E isOk \in kinds : ExecProduce(c, isOk, maxItems))

FairSpec == Spec /\ TaskFairness /\ ExecFairness(BOOLEAN, MaxItems)

FairSpecBurst == SpecBurst /\ TaskFairness /\ ExecFairness({TRUE}, BurstItems)

FairSpecSolo == SpecSolo /\ TaskFairness /\ ExecFairness(BOOLEAN, MaxItems)

\* Two well-formed requests, each single-shot or streaming, and an executor
\* that yields success values and is free to leave any request unanswered
\* for ever.
PairTexts ==
    { "{\"method\":\"get\"}",
      "{\"id\":1,\"method\":\"e+watch\"}" }

NextPair ==
    \/ start_websocket_relay
    \/ onopen
    \/ onclose
    \/ onerror
    \/ \E t \in PairTexts : onmessage(TextPayload(t), 2)
    \/ \E r \in DOMAIN tasks, wok \in BOOLEAN : TaskStart(r, wok)
    \/ \E r \in DOMAIN tasks, wok \in BOOLEAN : TaskSendResume(r, wok)
    \/ \E r \in DOMAIN tasks, wok \in BOOLEAN : TaskRecv(r, wok)
    \/ ExecTake
    \/ \E c \in held : ExecProduce(c, TRUE, MaxItems)
    \/ \E c \in held : ExecDrop(c)
    \/ ExecCloseIntake

SpecPair == Init /\ [][NextPair]_vars

\* the tasks are polled whenever they can run; nothing is assumed of the
\* executor
FairSpecPair == SpecPair /\ TaskFairness

(***************************************************************************)
(* What the properties below read off the state.                           *)
(***************************************************************************)
\* the send_with_str calls task r made, in order
FramesOf(r) == SelectSeq(wire, LAMBDA w : w.req = r)

\* the messages task r got into the intake
SubmissionsOf(r) == SelectSeq(intakeLog, LAMBDA m : m.req = r)

\* the slots whose payload was a text
TextSlots == {r \in DOMAIN inbox : inbox[r].text}

\* the "id" member a text frame carries, null when it has none
IdOfText(text) == IdField(Get(FromStr(text).v, "id"))

\* exactly one of "result" and "error" is a member of the frame
ResultXorError(frame) ==
    ("result" \in DOMAIN frame) # ("error" \in DOMAIN frame)

(***************************************************************************)
(* C7: connected() is false initially, becomes true only by the open       *)
(* event's handler and false only by the close event's handler, and in     *)
(* every reachable state it is true exactly when an open event was         *)
(* handled and no close event after it.                                    *)
(***************************************************************************)
C7_ConnectedFollowsOpenClose ==
    /\ ~BrpRelayStatus_connected
    /\ [](BrpRelayStatus_connected <=> ws = "open")
    /\ [][(connected' # connected) =>
            IF connected' THEN onopen ELSE onclose]_vars

\* the flag went true at the open event (messages arrived since) and back to
\* false at the close event
C7_Witness ==
    ws = "closed" /\ ~BrpRelayStatus_connected /\ Len(inbox) > 0

(***************************************************************************)
(* C8: the connection only moves forward through Disconnected,             *)
(* Connecting, Connected, Closed; WebSocket::new is called exactly once;   *)
(* once a close event is handled no connection is attempted again and      *)
(* connected() stays false.                                                *)
(***************************************************************************)
LifecycleRank(w) ==
    CASE w = "none" -> 0
      [] w = "connecting" -> 1
      [] w = "open" -> 2
      [] OTHER -> 3

\* C8: one WebSocket::new; the lifecycle only moves forward; after the close
\* event ws stays closed, no connection is made and connected() stays false
C8_ClosedIsTerminal ==
    /\ [](connects = IF ws = "none" THEN 0 ELSE 1)
    /\ [][LifecycleRank(ws') >= LifecycleRank(ws)]_vars
    /\ [][ws = "closed" =>
            /\ ws' = "closed"
            /\ connects' = connects
            /\ ~connected']_vars

\* a closed connection that had been open, with tasks still running after it
C8_Witness ==
    /\ ws = "closed"
    /\ connects = 1
    /\ \E r \in DOMAIN tasks : tasks[r].pc = "done" /\ FramesOf(r) # <<>>

(***************************************************************************)
(* C3: a text frame that is not valid JSON is answered with exactly one    *)
(* error frame, id null, code -32700, message starting "Parse error: ",    *)
(* and never reaches the executor: no response channel, no submission,     *)
(* no wait.                                                                *)
(***************************************************************************)
\* every response channel belongs to a task that created it
ChannelsAllOwned ==
    Len(chans) = Cardinality({r \in DOMAIN tasks : tasks[r].chan # 0})

\* C3: invalid JSON gets one -32700 frame with id null and nothing else
C3_ParseErrorAnswered ==
    \A r \in TextSlots :
        ~FromStr(inbox[r].data).ok =>
            /\ tasks[r].pc \in {"spawned", "done"}
            /\ tasks[r].chan = 0
            /\ ChannelsAllOwned
            /\ tasks[r].sends = 0
            /\ SubmissionsOf(r) = <<>>
            /\ \A i \in DOMAIN intake : intake[i].sender # 0
            /\ Len(FramesOf(r)) = IF tasks[r].pc = "done" THEN 1 ELSE 0
            /\ \A i \in DOMAIN FramesOf(r) :
                  LET f == FramesOf(r)[i].frame
                  IN  /\ DOMAIN f = {"jsonrpc", "id", "error"}
                      /\ f["id"] = JNull
                      /\ DOMAIN f["error"] = {"code", "message"}
                      /\ f["error"].code = -32700
                      /\ Len(f["error"].message) = 2
                      /\ f["error"].message[1] = "Parse error: "

\* an invalid text whose task has written its frame and returned, while
\* another request did reach the executor
C3_Witness ==
    \E r \in TextSlots :
        /\ inbox[r].data = "not-json"
        /\ tasks[r].pc = "done"
        /\ Len(FramesOf(r)) = 1
        /\ intakeLog # <<>>

(***************************************************************************)
(* C4: a valid JSON text whose "method" is missing or no string is         *)
(* answered with exactly one error frame, code -32600, message "Missing    *)
(* method field", id the text's "id" member (null when it has none), and   *)
(* nothing is submitted to the executor.                                   *)
(***************************************************************************)
NoMethodTexts == { "[1]", "{\"id\":3}", "{\"id\":null,\"method\":5}" }

\* C4: a missing or non-string method gets one -32600 frame with the
\* text's id and nothing else
C4_MissingMethodAnswered ==
    \A r \in TextSlots :
        inbox[r].data \in NoMethodTexts =>
            /\ tasks[r].pc \in {"spawned", "done"}
            /\ tasks[r].chan = 0
            /\ tasks[r].sends = 0
            /\ SubmissionsOf(r) = <<>>
            /\ Len(FramesOf(r)) = IF tasks[r].pc = "done" THEN 1 ELSE 0
            /\ \A i \in DOMAIN FramesOf(r) :
                  LET f == FramesOf(r)[i].frame
                  IN  /\ DOMAIN f = {"jsonrpc", "id", "error"}
                      /\ f["jsonrpc"] = [ver |-> "2.0"]
                      /\ f["id"] = IF inbox[r].data = "{\"id\":3}"
                                   THEN JNum(3) ELSE JNull
                      /\ f["error"] = [code |-> -32600,
                                       message |-> <<"Missing method field">>]

\* {"id":3} answered with id 3
C4_Witness ==
    \E r \in TextSlots :
        /\ inbox[r].data = "{\"id\":3}"
        /\ tasks[r].pc = "done"
        /\ Len(FramesOf(r)) = 1
        /\ FramesOf(r)[1].frame["id"] = JNum(3)

(***************************************************************************)
(* C5: a valid request whose submission finds the executor intake closed   *)
(* is answered with exactly one error frame, code -32603, message "BRP     *)
(* channel closed", its own id; the submission is not retried and the      *)
(* task neither waits on its response channel nor writes anything from it. *)
(***************************************************************************)
C5_IntakeClosedAnswered ==
    \A r \in DOMAIN tasks :
        tasks[r].sent = "closed" =>
            /\ tasks[r].pc = "done"
            /\ tasks[r].sends = 1
            /\ SubmissionsOf(r) = <<>>
            /\ Len(FramesOf(r)) = 1
            /\ LET f == FramesOf(r)[1].frame
               IN  /\ DOMAIN f = {"jsonrpc", "id", "error"}
                   /\ f["id"] = IdOfText(tasks[r].text)
                   /\ f["error"] = [code |-> -32603,
                                    message |-> <<"BRP channel closed">>]
            /\ LET ch == chans[tasks[r].chan]
               IN  /\ ch.receivers = 0
                   /\ ch.hist = <<>>
                   /\ ch.q = <<>>
                   /\ tasks[r].chan \notin held

\* the request with id 7 was turned away by a closed intake
C5_Witness ==
    \E r \in DOMAIN tasks :
        /\ tasks[r].sent = "closed"
        /\ IdOfText(tasks[r].text) = JNum(7)
        /\ Len(FramesOf(r)) = 1

(***************************************************************************)
(* C6: a request whose method does not contain "+watch" never has more     *)
(* than one frame written for it, whatever the executor tries to put on    *)
(* its producer handle.                                                    *)
(***************************************************************************)
C6_SingleShotAtMostOneFrame ==
    \A r \in TextSlots :
        inbox[r].data \notin StreamingTexts => Len(FramesOf(r)) <= 1

\* the executor tried a second item on a single-shot request's handle
C6_Witness ==
    \E r \in TextSlots :
        /\ inbox[r].data \notin StreamingTexts
        /\ tasks[r].chan # 0
        /\ Len(chans[tasks[r].chan].hist) = 1
        /\ chans[tasks[r].chan].rejected >= 1
        /\ Len(FramesOf(r)) = 1

(***************************************************************************)
(* C9: every text frame received gets a task of its own, every accepted    *)
(* request a response channel of its own and at most one submission that   *)
(* carries that channel's sender; an identical frame received while the    *)
(* first is pending gets a second channel, submission and task.            *)
(***************************************************************************)
C9_EveryFrameItsOwnRequest ==
    /\ Len(tasks) = Len(inbox)
    /\ \A r \in DOMAIN inbox :
          /\ inbox[r].text <=> tasks[r].pc # "none"
          /\ inbox[r].text => tasks[r].text = inbox[r].data
    /\ ChannelsAllOwned
    /\ \A r \in DOMAIN tasks :
          /\ tasks[r].chan \in 0..Len(chans)
          /\ tasks[r].pc \in {"send", "recv"} => tasks[r].chan # 0
          /\ \A s \in DOMAIN tasks :
                (r # s /\ tasks[r].chan # 0) => tasks[r].chan # tasks[s].chan
          /\ Len(SubmissionsOf(r)) = IF tasks[r].sent = "sent" THEN 1 ELSE 0
          /\ tasks[r].pc = "recv" => tasks[r].sent = "sent"
          /\ \A i \in DOMAIN SubmissionsOf(r) :
                SubmissionsOf(r)[i].msg.sender = tasks[r].chan
    /\ \A r \in TextSlots :
          (inbox[r].data \notin NoMethodTexts \cup {"not-json"}
              /\ tasks[r].pc # "spawned") => tasks[r].chan # 0

\* the same frame twice, both requests pending on channels of their own
C9_Witness ==
    \E r, s \in DOMAIN tasks :
        /\ r # s
        /\ tasks[r].text = tasks[s].text
        /\ tasks[r].pc = "recv"
        /\ tasks[s].pc = "recv"
        /\ tasks[r].chan # tasks[s].chan
        /\ Len(intakeLog) = 2

(***************************************************************************)
(* C10: the frames written for a request are, in order, the frames of a    *)
(* prefix of the items the executor put on that request's channel; no      *)
(* frame carries an item of another request or of none.  Frames of         *)
(* different requests may interleave on the wire.                          *)
(***************************************************************************)
\* a frame built from an executor item, and the item it was built from
IsResponseFrame(f) ==
    \/ "result" \in DOMAIN f
    \/ "brp_error" \in DOMAIN f["error"]

ItemOfFrame(f) ==
    IF "result" \in DOMAIN f
    THEN OkItem(f["result"].value)
    ELSE ErrItem(f["error"].brp_error)

\* C10: the frames of a request follow, one for one and in order, a prefix
\* of the items its channel accepted
C10_FramesArePrefixOfItems ==
    \A r \in DOMAIN tasks :
        LET fs == FramesOf(r)
        IN  IF tasks[r].sent = "sent"
            THEN LET h == chans[tasks[r].chan].hist
                 IN  /\ Len(fs) <= Len(h)
                     /\ \A i \in DOMAIN fs :
                           /\ IsResponseFrame(fs[i].frame)
                           /\ ItemOfFrame(fs[i].frame) = h[i]
            ELSE \A i \in DOMAIN fs : ~IsResponseFrame(fs[i].frame)

\* a frame of one request between two frames of another
C10_Witness ==
    \E i, j, k \in DOMAIN wire :
        /\ i < j /\ j < k
        /\ wire[i].req = wire[k].req
        /\ wire[i].req # wire[j].req
        /\ IsResponseFrame(wire[i].frame)
        /\ IsResponseFrame(wire[j].frame)
        /\ IsResponseFrame(wire[k].frame)

(***************************************************************************)
(* C2: a streaming request whose executor put n success values on the      *)
(* response channel and then dropped its producer handle, with no write    *)
(* failing, ends with exactly n frames written: frame i carries the        *)
(* request's id and the i-th value, and nothing follows the last value.    *)
(* Once the handle is dropped the task does end.                           *)
(***************************************************************************)
AllOk(items) == \A i \in DOMAIN items : items[i].ok

StreamDrained(r) ==
    LET ch == chans[tasks[r].chan]
        fs == FramesOf(r)
    IN  (/\ tasks[r].pc = "done"
         /\ ch.senders = 0
         /\ AllOk(ch.hist)
         /\ \A i \in DOMAIN fs : fs[i].ok)
        => /\ Len(fs) = Len(ch.hist)
           /\ \A i \in DOMAIN fs :
                 fs[i].frame = [k \in {"jsonrpc", "id", "result"} |->
                                  CASE k = "jsonrpc" -> [ver |-> "2.0"]
                                    [] k = "id" -> IdOfText(tasks[r].text)
                                    [] OTHER -> [value |-> i]]

\* C2: n success values, then the handle dropped, no failed write: exactly
\* n frames, frame i with the request's id and the i-th value; and the task
\* ends once the handle is dropped
C2_StreamRelaysEveryItem ==
    /\ [](\A r \in DOMAIN tasks :
             (tasks[r].text \in StreamingTexts /\ tasks[r].sent = "sent")
                 => StreamDrained(r))
    /\ \A r \in 1..MaxRequests :
          (/\ r \in DOMAIN tasks
           /\ tasks[r].text \in StreamingTexts
           /\ tasks[r].sent = "sent"
           /\ chans[tasks[r].chan].senders = 0)
          ~> (r \in DOMAIN tasks /\ tasks[r].pc = "done")

\* more values than the channel holds, all relayed, then the task ended
C2_Witness ==
    \E r \in DOMAIN tasks :
        /\ tasks[r].text \in StreamingTexts
        /\ tasks[r].pc = "done"
        /\ tasks[r].sent = "sent"
        /\ chans[tasks[r].chan].senders = 0
        /\ AllOk(chans[tasks[r].chan].hist)
        /\ Len(chans[tasks[r].chan].hist) > WatchChannelSize
        /\ Len(FramesOf(r)) = Len(chans[tasks[r].chan].hist)
        /\ \A i \in DOMAIN FramesOf(r) : FramesOf(r)[i].ok

(***************************************************************************)
(* C1: a well-formed single-shot request with id v.                        *)
(* C1_EventuallyAnswered is the claim as made: once the request is         *)
(* received, a frame with id v and exactly one of "result" and "error"     *)
(* is eventually written.                                                  *)
(* C1_AnsweredOnceItemOrClosedIntake is what the relay does: every frame   *)
(* written for the request has id v and exactly one of "result" and        *)
(* "error", there is at most one, and there is one eventually once the     *)
(* submission found the intake closed or the executor put an item on the   *)
(* request's response channel.                                             *)
(***************************************************************************)
SingleShotTexts ==
    { "{\"method\":\"get\"}",
      "{\"id\":7,\"method\":\"watch\",\"params\":[1]}" }

\* a frame of r that carries r's id and exactly one of result and error
Answered(r) ==
    \E i \in DOMAIN FramesOf(r) :
        /\ FramesOf(r)[i].frame["id"] = IdOfText(tasks[r].text)
        /\ ResultXorError(FramesOf(r)[i].frame)

\* C1 as claimed: every well-formed single-shot request received is
\* eventually answered with a frame of its id and one of result and error
C1_EventuallyAnswered ==
    \A r \in 1..MaxRequests :
        (r \in DOMAIN tasks /\ tasks[r].text \in SingleShotTexts)
        ~> (r \in DOMAIN tasks /\ Answered(r))

\* C1 as amended: at most one frame, with the request's id and exactly one
\* of result and error; none when the channel closed without an item; one
\* eventually once the intake was found closed or the channel got an item
C1_AnsweredOnceItemOrClosedIntake ==
    /\ [](\A r \in DOMAIN tasks :
             tasks[r].text \in SingleShotTexts =>
                 /\ Len(FramesOf(r)) <= 1
                 /\ \A i \in DOMAIN FramesOf(r) :
                       /\ DOMAIN FramesOf(r)[i].frame \in
                             { {"jsonrpc", "id", "result"},
                               {"jsonrpc", "id", "error"} }
                       /\ FramesOf(r)[i].frame["id"] = IdOfText(tasks[r].text)
                 /\ (tasks[r].pc = "done" /\ tasks[r].sent = "sent"
                       /\ chans[tasks[r].chan].hist = <<>>)
                       => FramesOf(r) = <<>>)
    /\ \A r \in 1..MaxRequests :
          (/\ r \in DOMAIN tasks
           /\ tasks[r].text \in SingleShotTexts
           /\ \/ tasks[r].sent = "closed"
              \/ /\ tasks[r].sent = "sent"
                 /\ chans[tasks[r].chan].hist # <<>>)
          ~> (/\ r \in DOMAIN tasks
              /\ tasks[r].pc = "done"
              /\ Len(FramesOf(r)) = 1
              /\ Answered(r))

\* a single-shot request with id 7 answered from an item of its channel
C1_Witness ==
    \E r \in DOMAIN tasks :
        /\ tasks[r].text = "{\"id\":7,\"method\":\"watch\",\"params\":[1]}"
        /\ tasks[r].pc = "done"
        /\ Len(chans[tasks[r].chan].hist) = 1
        /\ Len(FramesOf(r)) = 1
        /\ FramesOf(r)[1].frame["id"] = JNum(7)
        /\ ResultXorError(FramesOf(r)[1].frame)

(***************************************************************************)
(* C11: requests that never complete block nothing.  Whatever tasks are    *)
(* suspended on executors that neither yield nor drop, an open connection  *)
(* still takes the next message event, a task with an item queued on its   *)
(* channel can run, and every request whose channel got an item has a      *)
(* frame written, although nothing is assumed of the executor.             *)
(***************************************************************************)
\* task r awaits a response channel its executor holds and left empty
Starved(r) ==
    /\ tasks[r].pc = "recv"
    /\ tasks[r].chan \in held
    /\ chans[tasks[r].chan].hist = <<>>

\* C11: a suspended task keeps no message event from being taken and no
\* other request, whose executor yields an item, from getting its frame
C11_PendingRequestsBlockNothing ==
    /\ [](\A t \in PairTexts :
             (ws = "open" /\ Len(inbox) < 2)
                 => ENABLED onmessage(TextPayload(t), 2))
    /\ [](\A s \in DOMAIN tasks :
             (tasks[s].pc = "recv" /\ chans[tasks[s].chan].q # <<>>)
                 => ENABLED TaskRecv(s, TRUE))
    /\ \A s \in 1..2 :
          (/\ s \in DOMAIN tasks
           /\ tasks[s].sent = "sent"
           /\ chans[tasks[s].chan].hist # <<>>)
          ~> (Len(FramesOf(s)) >= 1)

\* the first request is still starved while the second, received after it,
\* has its frame
C11_Witness ==
    /\ Len(tasks) = 2
    /\ Starved(1)
    /\ tasks[2].sent = "sent"
    /\ Len(chans[tasks[2].chan].hist) >= 1
    /\ Len(FramesOf(2)) >= 1

(***************************************************************************)
(* C12: every frame written for an accepted request carries the "id"       *)
(* member of the request's text as it was sent, null when the text has no  *)
(* id or a null one; all frames of a streaming request carry the same id.  *)
(***************************************************************************)
\* the "id" member as the relay server wrote it into each text
SentId(text) ==
    CASE text = "{\"method\":\"get\"}" -> JNull
      [] text = "{\"id\":7,\"method\":\"watch\",\"params\":[1]}" -> JNum(7)
      [] text = "{\"id\":1,\"method\":\"e+watch\"}" -> JNum(1)
      [] text = "{\"id\":null,\"method\":\"+watcher\"}" -> JNull

\* C12: the frames of an accepted request all carry the id its text carried
C12_FramesCarryRequestId ==
    \A r \in DOMAIN tasks :
        tasks[r].chan # 0 =>
            /\ tasks[r].text \in SingleShotTexts \cup StreamingTexts
            /\ \A i \in DOMAIN FramesOf(r) :
                  /\ "id" \in DOMAIN FramesOf(r)[i].frame
                  /\ FramesOf(r)[i].frame["id"] = SentId(tasks[r].text)
            /\ \A i, j \in DOMAIN FramesOf(r) :
                  FramesOf(r)[i].frame["id"] = FramesOf(r)[j].frame["id"]

\* a streaming request with id 1 that has two frames, one of them an error
C12_Witness ==
    \E r \in DOMAIN tasks :
        /\ tasks[r].text = "{\"id\":1,\"method\":\"e+watch\"}"
        /\ Len(FramesOf(r)) = 2
        /\ \E i \in DOMAIN FramesOf(r) : "error" \in DOMAIN FramesOf(r)[i].frame
        /\ \A i \in DOMAIN FramesOf(r) : FramesOf(r)[i].frame["id"] = JNum(1)

(***************************************************************************)
(* C13: a single-shot request whose executor dropped the producer handle   *)
(* without ever putting an item on the response channel has no frame       *)
(* written, neither a result nor an error, and its task ends.              *)
(***************************************************************************)
\* the executor took r's request and dropped its handle with no item sent
ClosedWithoutItem(r) ==
    /\ tasks[r].sent = "sent"
    /\ chans[tasks[r].chan].senders = 0
    /\ chans[tasks[r].chan].hist = <<>>

\* C13: closed without an item, a single-shot request never has a frame and
\* its task ends
C13_ClosedWithoutItemIsSilent ==
    /\ [](\A r \in DOMAIN tasks :
             (tasks[r].text \in SingleShotTexts /\ ClosedWithoutItem(r))
                 => /\ FramesOf(r) = <<>>
                    /\ tasks[r].pc \in {"recv", "done"})
    /\ \A r \in 1..1 :
          (/\ r \in DOMAIN tasks
           /\ tasks[r].text \in SingleShotTexts
           /\ ClosedWithoutItem(r))
          ~> (/\ r \in DOMAIN tasks
              /\ tasks[r].pc = "done"
              /\ ClosedWithoutItem(r)
              /\ chans[tasks[r].chan].receivers = 0
              /\ FramesOf(r) = <<>>)

\* the request with id 7 ended that way: the task is done, the wire is empty
C13_Witness ==
    \E r \in DOMAIN tasks :
        /\ tasks[r].text = "{\"id\":7,\"method\":\"watch\",\"params\":[1]}"
        /\ ClosedWithoutItem(r)
        /\ tasks[r].pc = "done"
        /\ wire = <<>>

(***************************************************************************)
(* C14: in a streaming relay the first failed write is the last thing the  *)
(* task does: the failed frame is the request's last, the task has taken   *)
(* exactly as many items as it wrote frames and takes no more, whether     *)
(* they are queued already or offered later, and it submits nothing to     *)
(* the executor.                                                           *)
(***************************************************************************)
\* a send_with_str call of task r's relay loop returned Err
WriteFailed(r) ==
    /\ tasks[r].sent = "sent"
    /\ \E i \in DOMAIN FramesOf(r) : ~FramesOf(r)[i].ok

\* the items task r has taken from its channel
ItemsTaken(r) ==
    Len(chans[tasks[r].chan].hist) - Len(chans[tasks[r].chan].q)

\* C14: after a failed write of a streaming request the task is done, no
\* item is read, no frame written and nothing submitted any more
C14_FailedWriteEndsStream ==
    /\ [](\A r \in DOMAIN tasks :
             (tasks[r].text \in StreamingTexts /\ WriteFailed(r))
                 => /\ tasks[r].pc = "done"
                    /\ chans[tasks[r].chan].receivers = 0
                    /\ \A i \in DOMAIN FramesOf(r) :
                          FramesOf(r)[i].ok <=> i < Len(FramesOf(r))
                    /\ ItemsTaken(r) = Len(FramesOf(r))
                    /\ Len(SubmissionsOf(r)) = 1)
    /\ [][\A r \in DOMAIN tasks :
             (tasks[r].text \in StreamingTexts /\ WriteFailed(r))
                 => /\ FramesOf(r)' = FramesOf(r)
                    /\ chans'[tasks[r].chan].q = chans[tasks[r].chan].q
                    /\ SubmissionsOf(r)' = SubmissionsOf(r)
                    /\ tasks'[r] = tasks[r]]_vars

\* the third write failed; an item queued before it is still in the channel
\* and an item offered after it was refused
C14_Witness ==
    \E r \in DOMAIN tasks :
        /\ tasks[r].text \in StreamingTexts
        /\ Len(FramesOf(r)) = 3
        /\ ~FramesOf(r)[3].ok
        /\ chans[tasks[r].chan].q # <<>>
        /\ chans[tasks[r].chan].rejected >= 1

(***************************************************************************)
(* C15: a response channel never holds more items than its capacity, 1     *)
(* for a method without "+watch" and 8 for one with it; while the channel  *)
(* is full and the relay still reads it, the executor's next send cannot   *)
(* complete, and it can again once the relay has taken an item.            *)
(***************************************************************************)
\* One well-formed request, single-shot or streaming, whose executor offers
\* more success values than the larger capacity.
NextFill ==
    \/ start_websocket_relay
    \/ onopen
    \/ onclose
    \/ onerror
    \/ \E t \in SingleShotTexts \cup StreamingTexts : onmessage(TextPayload(t), 1)
    \/ \E r \in DOMAIN tasks, wok \in BOOLEAN : TaskStart(r, wok)
    \/ \E r \in DOMAIN tasks, wok \in BOOLEAN : TaskRecv(r, wok)
    \/ ExecTake
    \/ \E c \in held : ExecProduce(c, TRUE, BurstItems)
    \/ \E c \in held : ExecDrop(c)
    \/ ExecCloseIntake

SpecFill == Init /\ [][NextFill]_vars

\* the capacity the claim gives a request by its text
ClaimedCapacity(text) == IF text \in StreamingTexts THEN 8 ELSE 1

\* C15: no channel is ever over its capacity of 1 or 8; a send to a full
\* channel waits for the relay to take an item
C15_ChannelNeverOverfull ==
    /\ [](\A r \in DOMAIN tasks :
             tasks[r].chan # 0 =>
                 LET c == tasks[r].chan
                     ch == chans[c]
                 IN  /\ ch.cap = ClaimedCapacity(tasks[r].text)
                     /\ Len(ch.q) <= ClaimedCapacity(tasks[r].text)
                     /\ (/\ c \in held
                         /\ ch.receivers > 0
                         /\ Len(ch.hist) < BurstItems)
                        => (ENABLED ExecProduce(c, TRUE, BurstItems)
                               <=> Len(ch.q) < ClaimedCapacity(tasks[r].text)))
    /\ [][\A c \in DOMAIN chans :
             Len(chans'[c].q) > Len(chans[c].q)
                 => /\ Len(chans'[c].q) = Len(chans[c].q) + 1
                    /\ Len(chans'[c].q) <= chans[c].cap]_vars

\* a streaming channel holding eight items while the executor has a ninth
C15_Witness ==
    \E r \in DOMAIN tasks :
        /\ tasks[r].text \in StreamingTexts
        /\ tasks[r].pc = "recv"
        /\ tasks[r].chan \in held
        /\ Len(chans[tasks[r].chan].q) = 8
        /\ Len(chans[tasks[r].chan].hist) < BurstItems

(***************************************************************************)
(* C16: where a relay task suspends.                                       *)
(* C16_SuspendsOnlyOnResponseChannel is the claim as made: a task that     *)
(* has started and not returned is never suspended anywhere but in the     *)
(* await of its response channel.                                          *)
(* C16_SuspendsAtSubmissionOrResponse is what the relay does: a task is    *)
(* suspended either in sender.send(message).await, which it enters only    *)
(* on a full open intake and leaves only once the intake has room or is    *)
(* closed, or in result_receiver.recv().await, which it leaves only on an  *)
(* item or on the channel's closure; parsing and validation never suspend. *)
(***************************************************************************)
\* task r's future has been polled and returned Pending
Suspended(r) == tasks[r].pc \in {"send", "recv"}

\* task r took a step: its state changed or it made a send_with_str call
Ran(r) == tasks'[r] # tasks[r] \/ FramesOf(r)' # FramesOf(r)

\* C16 as claimed: a suspended task awaits its response channel, nothing else
C16_SuspendsOnlyOnResponseChannel ==
    \A r \in DOMAIN tasks : Suspended(r) => tasks[r].pc = "recv"

\* C16 as amended: a task suspends in the submission to a full intake or in
\* the await of its response channel, and resumes from the first on room
\* or closure of the intake, from the second on an item or closure
C16_SuspendsAtSubmissionOrResponse ==
    /\ [](\A r \in DOMAIN tasks :
             /\ tasks[r].pc = "send" => tasks[r].sent = "pending"
             /\ tasks[r].pc = "recv" => tasks[r].sent = "sent")
    /\ [][\A r \in DOMAIN tasks :
             /\ (tasks[r].pc = "spawned" /\ Ran(r))
                    => /\ tasks'[r].pc \in {"send", "recv", "done"}
                       /\ tasks'[r].pc = "send"
                              <=> (/\ tasks'[r].chan # 0
                                   /\ ~intakeClosed
                                   /\ Len(intake) >= IntakeCapacity)
             /\ (tasks[r].pc = "send" /\ Ran(r))
                    => /\ intakeClosed \/ Len(intake) < IntakeCapacity
                       /\ tasks'[r].pc \in {"recv", "done"}
             /\ (tasks[r].pc = "recv" /\ Ran(r))
                    => /\ \/ chans[tasks[r].chan].q # <<>>
                          \/ chans[tasks[r].chan].senders = 0
                       /\ tasks'[r].pc \in {"recv", "done"}
             /\ tasks[r].pc \in {"none", "done"} => ~Ran(r)]_vars

\* one task waits for room in the intake while another awaits its channel
C16_Witness ==
    \E r, s \in DOMAIN tasks :
        /\ tasks[r].pc = "send"
        /\ tasks[r].sent = "pending"
        /\ tasks[s].pc = "recv"
        /\ Len(intake) = IntakeCapacity

(***************************************************************************)
(* C17: a task that awaits its response channel ends only on the channel's *)
(* closure, on a failed write, or, single-shot, on its one item.  Close    *)
(* and error events end no task, and while the executor neither yields an  *)
(* item nor drops its handle the task stays suspended with nothing         *)
(* written, also once the connection is closed.                            *)
(***************************************************************************)
\* r's request was submitted and its executor has so far neither put an
\* item on the channel nor dropped the producer handle
Unanswered(r) ==
    /\ tasks[r].sent = "sent"
    /\ chans[tasks[r].chan].senders > 0
    /\ chans[tasks[r].chan].hist = <<>>

\* C17: only closure, a failed write or a single-shot's item end a relay
\* task; an unanswered task stays suspended across close and error events
C17_TaskEndsOnlyByItsChannel ==
    /\ [](\A r \in DOMAIN tasks :
             Unanswered(r) => tasks[r].pc = "recv" /\ FramesOf(r) = <<>>)
    /\ [][\A r \in DOMAIN tasks :
             /\ (tasks[r].pc = "recv" /\ tasks'[r].pc # "recv")
                    => /\ tasks'[r].pc = "done"
                       /\ \/ /\ chans[tasks[r].chan].q = <<>>
                             /\ chans[tasks[r].chan].senders = 0
                             /\ FramesOf(r)' = FramesOf(r)
                          \/ /\ Len(FramesOf(r)') = Len(FramesOf(r)) + 1
                             /\ \/ ~FramesOf(r)'[Len(FramesOf(r)')].ok
                                \/ tasks[r].text \in SingleShotTexts
             /\ (ws' # ws \/ errorsLogged' # errorsLogged)
                    => /\ tasks'[r] = tasks[r]
                       /\ FramesOf(r)' = FramesOf(r)
                       /\ tasks[r].chan # 0
                              => chans'[tasks[r].chan] = chans[tasks[r].chan]]_vars

\* the connection has closed after an error event; the task still awaits
\* the executor, which holds the producer handle
C17_Witness ==
    \E r \in DOMAIN tasks :
        /\ ws = "closed"
        /\ errorsLogged >= 1
        /\ Unanswered(r)
        /\ tasks[r].chan \in held
        /\ tasks[r].pc = "recv"

(***************************************************************************)
(* C18: an error event changes nothing but the log: connected() returns    *)
(* after it what it returned before, true or false, no frame is written,   *)
(* and no task, response channel or submission is touched.                 *)
(***************************************************************************)
\* C18: across an error event the flag, the wire, the tasks, the channels
\* and the intake are what they were
C18_ErrorEventOnlyLogs ==
    [][errorsLogged' # errorsLogged =>
          /\ errorsLogged' = errorsLogged + 1
          /\ BrpRelayStatus_connected' = BrpRelayStatus_connected
          /\ ws' = ws
          /\ connects' = connects
          /\ wire' = wire
          /\ inbox' = inbox
          /\ tasks' = tasks
          /\ chans' = chans
          /\ intake' = intake
          /\ intakeClosed' = intakeClosed
          /\ intakeLog' = intakeLog
          /\ held' = held]_vars

\* an error event was handled and the relay is connected, with a request
\* pending whose item is still relayed afterwards
C18_Witness ==
    /\ errorsLogged = 1
    /\ ws = "open"
    /\ BrpRelayStatus_connected
    /\ \E r \in DOMAIN tasks :
          /\ tasks[r].pc = "recv"
          /\ chans[tasks[r].chan].q # <<>>

(***************************************************************************)
(* C19: a message event whose payload is no text has no effect: no task    *)
(* is spawned for it, no frame is ever written for it, no response channel *)
(* is created, nothing is submitted, and the event leaves connected() and  *)
(* every other request as they were.                                       *)
(***************************************************************************)
\* the slots whose payload was no text
BinarySlots == {r \in DOMAIN inbox : ~inbox[r].text}

\* C19: a payload that is no text gets no task, frame, channel or
\* submission, and its event changes nothing else
C19_NonTextPayloadDropped ==
    /\ [](\A r \in BinarySlots :
             /\ tasks[r].pc = "none"
             /\ tasks[r].chan = 0
             /\ tasks[r].sends = 0
             /\ FramesOf(r) = <<>>
             /\ SubmissionsOf(r) = <<>>)
    /\ [](/\ Len(chans) = Cardinality({r \in TextSlots : tasks[r].chan # 0})
          /\ Len(wire) <= Cardinality(TextSlots) * MaxItems
          /\ TextSlots = {} => wire = <<>> /\ intakeLog = <<>>)
    /\ [][(Len(inbox') > Len(inbox) /\ ~inbox'[Len(inbox')].text)
             => /\ BrpRelayStatus_connected' = BrpRelayStatus_connected
                /\ ws' = ws
                /\ wire' = wire
                /\ chans' = chans
                /\ intake' = intake
                /\ intakeLog' = intakeLog
                /\ held' = held
                /\ \A r \in DOMAIN tasks : tasks'[r] = tasks[r]]_vars

\* a text and then a binary payload arrived; the text's request was
\* answered and its frame is the only one on the wire
C19_Witness ==
    /\ Len(inbox) = 2
    /\ inbox[1].text
    /\ ~inbox[2].text
    /\ tasks[1].pc = "done"
    /\ tasks[1].sent = "sent"
    /\ Len(wire) = 1
    /\ wire[1].req = 1
    /\ BrpRelayStatus_connected

(***************************************************************************)
(* C20: a task that has returned has dropped its receiver, so its response *)
(* channel is closed: from then on every send on the producer handle       *)
(* fails at once, full queue or not, nothing more is queued, and no frame  *)
(* is written for the request any more.                                    *)
(***************************************************************************)
\* task r returned after it had created its response channel
Ended(r) == tasks[r].pc = "done" /\ tasks[r].chan # 0

\* the sends the executor has tried on channel c
Attempts(c) == Len(chans[c].hist) + chans[c].rejected

\* C20: once the task has ended its channel is closed, the executor's
\* sends fail without waiting, and neither the queue nor the wire grows
C20_EndedTaskClosesChannel ==
    /\ [](\A r \in DOMAIN tasks :
             /\ tasks[r].pc \in {"send", "recv"}
                    => /\ chans[tasks[r].chan].receivers = 1
                       /\ chans[tasks[r].chan].rejected = 0
             /\ Ended(r)
                    => /\ chans[tasks[r].chan].receivers = 0
                       /\ (/\ tasks[r].chan \in held
                           /\ Attempts(tasks[r].chan) < BurstItems)
                          => ENABLED ExecProduce(tasks[r].chan, TRUE, BurstItems))
    /\ [][\A r \in DOMAIN tasks :
             Ended(r) =>
                 LET c == tasks[r].chan
                 IN  /\ chans'[c].q = chans[c].q
                     /\ chans'[c].hist = chans[c].hist
                     /\ chans'[c].receivers = 0
                     /\ FramesOf(r)' = FramesOf(r)
                     /\ Attempts(c)' # Attempts(c)
                            => chans'[c].rejected = chans[c].rejected + 1]_vars

\* a single-shot request answered from its one item; the executor's two
\* further sends failed and the wire still holds the one frame
C20_Witness ==
    \E r \in DOMAIN tasks :
        /\ tasks[r].text \in SingleShotTexts
        /\ Ended(r)
        /\ Len(chans[tasks[r].chan].hist) = 1
        /\ chans[tasks[r].chan].rejected = 2
        /\ Len(FramesOf(r)) = 1

====
